---- MODULE Spec2Model ----
(***************************************************************************)
(* Model of github.com/karalef/bwt: the algorithm registry, the token wire *)
(* encoding, the parse / verify / validate pipeline and the claims         *)
(* validator.                                                              *)
(*                                                                         *)
(* Go strings and byte slices are sequences of byte values (0..255), so    *)
(* that upper-casing, splitting, base64url and bit flips are computed the  *)
(* way the code computes them.  A time.Time is an integer number of        *)
(* seconds since the zero instant: IsZero(t) is t = 0.  A time.Duration is *)
(* an integer number of seconds.                                           *)
(***************************************************************************)
EXTENDS Integers, Sequences, FiniteSets, TLC

VARIABLES
    registeredAlgs,   \* registeredAlgs map: upper-cased name -> Algorithm
    regLog,           \* history: every algorithm passed to RegisterAlgorithm, in order
    lookup,           \* the last GetAlgorithm / ListAlgorithms call and its result
    v,                \* the Validator object (leeway, timeFunc, now, validators)
    clock,            \* the wall clock read by time.Now / the configured timeFunc
    vcall,            \* the Validate call in progress (position, errors, log)
    vdone,            \* history: whether the call before this one returned nil, and for the same claims
    wire,             \* the token string on the wire
    sent,             \* what Authenticate was called with to produce the wire string
    pcall             \* the ParseWithClaims call in progress (stage, token, raw, error, log)

vars == <<registeredAlgs, regLog, lookup, v, clock, vcall, vdone, wire, sent, pcall>>

regVars == <<registeredAlgs, regLog, lookup>>
valVars == <<v, clock, vcall, vdone>>
tokVars == <<wire, sent, pcall>>

(***************************************************************************)
(* Strings                                                                 *)
(***************************************************************************)

\* strings.ToUpper on ASCII text: 'a'..'z' (97..122) become 'A'..'Z'.
ToUpper(s) == [i \in 1..Len(s) |-> IF s[i] \in 97..122 THEN s[i] - 32 ELSE s[i]]

\* Two bytes that are the same letter in either case (used by the claims only).
SameLetter(a, b) ==
    \/ a = b
    \/ a \in 97..122 /\ b = a - 32
    \/ b \in 97..122 /\ a = b - 32

\* Equality ignoring letter case, character by character (used by the claims only).
EqualFold(s, t) == Len(s) = Len(t) /\ \A i \in 1..Len(s) : SameLetter(s[i], t[i])

IsUpper(s) == \A i \in 1..Len(s) : s[i] \notin 97..122

\* The text used in the model, as byte sequences.
sHS256 == <<72, 83, 50, 53, 54>>        \* "HS256"
sHS384 == <<72, 83, 51, 56, 52>>        \* "HS384"
sHS512 == <<72, 83, 53, 49, 50>>        \* "HS512"
sEDDSA == <<69, 68, 68, 83, 65>>        \* "EDDSA"
shs256 == <<104, 115, 50, 53, 54>>      \* "hs256"
sHs256 == <<72, 115, 50, 53, 54>>       \* "Hs256"
sXa    == <<88, 97>>                    \* "Xa"
sxA    == <<120, 65>>                   \* "xA"
sXdotY == <<88, 46, 89>>                \* "X.Y"
sZZ    == <<90, 90>>                    \* "ZZ"
sBWT   == <<66, 87, 84>>                \* "BWT"

(***************************************************************************)
(* Algorithms and the registry                                             *)
(***************************************************************************)

\* An Algorithm value: impl is the identity of the object behind the interface,
\* name is what its Name() returns, family/size select the implementation
\* (hmacAlgo with a hash of `size` bytes, or algoEd25519).
NilAlg == [impl |-> "nil", name |-> <<>>, family |-> "none", size |-> 0]

HS256 == [impl |-> "HS256", name |-> sHS256, family |-> "hmac", size |-> 32]
HS384 == [impl |-> "HS384", name |-> sHS384, family |-> "hmac", size |-> 48]
HS512 == [impl |-> "HS512", name |-> sHS512, family |-> "hmac", size |-> 64]
EdDSA == [impl |-> "EdDSA", name |-> sEDDSA, family |-> "eddsa", size |-> 64]

\* Algorithms a caller registers in addition: one whose name collides with a
\* built-in ignoring case, two whose names differ only in case, one whose name
\* holds the segment separator, and one with the empty name.
CustomLower == [impl |-> "customLower", name |-> shs256, family |-> "hmac", size |-> 48]
CustomXa    == [impl |-> "customXa", name |-> sXa, family |-> "hmac", size |-> 32]
CustomxA    == [impl |-> "customxA", name |-> sxA, family |-> "hmac", size |-> 64]
CustomDot   == [impl |-> "customDot", name |-> sXdotY, family |-> "hmac", size |-> 32]
CustomEmpty == [impl |-> "customEmpty", name |-> <<>>, family |-> "hmac", size |-> 32]

BuiltinAlgs == <<EdDSA, HS256, HS384, HS512>>
CustomAlgs  == {CustomLower, CustomXa, CustomxA, CustomDot, CustomEmpty}

\* Names GetAlgorithm is asked for.
LookupNames == {sHS256, shs256, sHs256, sHS384, sHS512, sEDDSA, sXa, sxA, sXdotY, sZZ, <<>>}

\* How many RegisterAlgorithm calls a run makes after the built-ins registered.
MaxRegs == 2

\* The map key RegisterAlgorithm stores an algorithm under, without upper-casing.
RegKeyAsGiven(alg) == alg.name

\* The map key RegisterAlgorithm stores an algorithm under.
RegKey(alg) == ToUpper(alg.name)

\* registeredAlgs[key] = alg.
MapPut(m, key, alg) == [k \in DOMAIN m \cup {key} |-> IF k = key THEN alg ELSE m[k]]

\* The registry after the package's init() functions ran.
RECURSIVE RegisterAll(_, _, _)
RegisterAll(m, algs, i) ==
    IF i > Len(algs) THEN m ELSE RegisterAll(MapPut(m, RegKey(algs[i]), algs[i]), algs, i + 1)

InitRegistry == RegisterAll(<<>>, BuiltinAlgs, 1)

\* GetAlgorithm looking the name up as it is written.
GetAlgorithmExact(m, name) == IF name \in DOMAIN m THEN m[name] ELSE NilAlg

\* GetAlgorithm(alg): the map's zero value (nil) when the key is missing.
GetAlgorithm(m, name) == IF ToUpper(name) \in DOMAIN m THEN m[ToUpper(name)] ELSE NilAlg

RegInit ==
    /\ registeredAlgs = InitRegistry
    /\ regLog = BuiltinAlgs
    /\ lookup = [op |-> "none", name |-> <<>>, result |-> NilAlg, names |-> {}]

RegisterAlgorithm(alg) ==
    /\ Len(regLog) < Len(BuiltinAlgs) + MaxRegs
    /\ registeredAlgs' = MapPut(registeredAlgs, RegKey(alg), alg)
    /\ regLog' = Append(regLog, alg)
    /\ UNCHANGED lookup

DoGetAlgorithm(name) ==
    /\ lookup' = [op |-> "get", name |-> name,
                  result |-> GetAlgorithm(registeredAlgs, name), names |-> {}]
    /\ UNCHANGED <<registeredAlgs, regLog>>

\* ListAlgorithms: the keys of the map; Go's map iteration order is unspecified,
\* so the result is kept as a set.
DoListAlgorithms ==
    /\ lookup' = [op |-> "list", name |-> <<>>, result |-> NilAlg,
                  names |-> DOMAIN registeredAlgs]
    /\ UNCHANGED <<registeredAlgs, regLog>>

(***************************************************************************)
(* Errors                                                                  *)
(*                                                                         *)
(* An error is the sequence of the leaf errors errors.Join put together,   *)
(* in order; nil is the empty sequence.  errors.Is(err, e) is Is(err, e).  *)
(***************************************************************************)

NilErr == <<>>

\* errors.Join(a, b): nil operands are dropped, nil when nothing is left.
Join(a, b) == a \o b

\* errors.Join(errs...) of a slice of errors.
RECURSIVE JoinAll(_)
JoinAll(errs) == IF errs = <<>> THEN NilErr ELSE Join(Head(errs), JoinAll(Tail(errs)))

Is(err, e) == \E i \in 1..Len(err) : <<err[i]>> = e

ErrTokenRequiredClaimMissing == <<"token is missing required claim">>
ErrTokenInvalidAudience      == <<"token has invalid audience">>
ErrTokenExpired              == <<"token is expired">>
ErrTokenUsedBeforeIssued     == <<"token used before issued">>
ErrTokenInvalidIssuer        == <<"token has invalid issuer">>
ErrTokenInvalidSubject       == <<"token has invalid subject">>
ErrTokenNotValidYet          == <<"token is not valid yet">>
ErrCustomRule                == <<"custom rule failed">>
ErrSelfValidate              == <<"claims rejected themselves">>

errorIfFalse(value, err) == IF value THEN NilErr ELSE err

\* errors.New(claim + " claim is required").
ErrClaimRequired(claim) ==
    CASE claim = "exp" -> <<"exp claim is required">>
      [] claim = "iat" -> <<"iat claim is required">>
      [] claim = "nbf" -> <<"nbf claim is required">>
      [] claim = "aud" -> <<"aud claim is required">>
      [] claim = "iss" -> <<"iss claim is required">>
      [] claim = "sub" -> <<"sub claim is required">>

errorIfRequired(required, claim) ==
    IF required
    THEN Join(ErrClaimRequired(claim), ErrTokenRequiredClaimMissing)
    ELSE NilErr

(***************************************************************************)
(* Claims                                                                  *)
(***************************************************************************)

\* The well-known claim keys, as the bytes of the key text.
ClaimsKeyKeyID          == <<107, 105, 100>>   \* "kid"
ClaimsKeyExpirationTime == <<101, 120, 112>>   \* "exp"
ClaimsKeyIssuedAt       == <<105, 97, 116>>    \* "iat"
ClaimsKeyNotBefore      == <<110, 98, 102>>    \* "nbf"
ClaimsKeyIssuer         == <<105, 115, 115>>   \* "iss"
ClaimsKeySubject        == <<115, 117, 98>>    \* "sub"
ClaimsKeyAudience       == <<97, 117, 100>>    \* "aud"

\* Claim text.
sA == <<97>>    \* "a"
sB == <<98>>    \* "b"
sC == <<99>>    \* "c"

\* A RegisteredClaims value; the zero value of a field stands for its absence.
\* self says whether the claims type also implements ClaimsValidator ("none" when
\* it does not) and what its Validate() answers.
RegisteredClaims(kid, exp, iat, nbf, iss, sub, aud, self) ==
    [kind |-> "registered", kid |-> kid, exp |-> exp, iat |-> iat, nbf |-> nbf,
     iss |-> iss, sub |-> sub, aud |-> aud, self |-> self]

\* A ClaimsMap value: m maps a key to a dynamically typed value [t, val].
ClaimsMap(m) == [kind |-> "map", m |-> m, self |-> "none"]

TStr(s)   == [t |-> "string", val |-> s]
TTime(x)  == [t |-> "time.Time", val |-> x]
TStrs(l)  == [t |-> "[]string", val |-> l]
TAnys(l)  == [t |-> "[]interface {}", val |-> l]
TInt(n)   == [t |-> "int8", val |-> n]

\* The outcome of an accessor: a value, or the run-time panic of a failed
\* type assertion.
Got(val)   == [panic |-> FALSE, val |-> val]
Panicked   == [panic |-> TRUE, val |-> <<>>]

\* MapValue[V](m, key): the zero value of V when the key is missing, else v.(V),
\* which panics when the stored value is not a V.
MapValue(m, key, T, empty) ==
    IF key \notin DOMAIN m THEN Got(empty)
    ELSE IF m[key].t = T THEN Got(m[key].val)
    ELSE Panicked

Time(c, key) == MapValue(c.m, key, "time.Time", 0)
Str(c, key)  == MapValue(c.m, key, "string", <<>>)
Strs(c, key) == MapValue(c.m, key, "[]string", <<>>)

GetKeyID(c) == IF c.kind = "registered" THEN Got(c.kid) ELSE Str(c, ClaimsKeyKeyID)
GetExpirationTime(c) ==
    IF c.kind = "registered" THEN Got(c.exp) ELSE Time(c, ClaimsKeyExpirationTime)
GetIssuedAt(c)  == IF c.kind = "registered" THEN Got(c.iat) ELSE Time(c, ClaimsKeyIssuedAt)
GetNotBefore(c) == IF c.kind = "registered" THEN Got(c.nbf) ELSE Time(c, ClaimsKeyNotBefore)
GetIssuer(c)    == IF c.kind = "registered" THEN Got(c.iss) ELSE Str(c, ClaimsKeyIssuer)
GetSubject(c)   == IF c.kind = "registered" THEN Got(c.sub) ELSE Str(c, ClaimsKeySubject)
GetAudience(c)  == IF c.kind = "registered" THEN Got(c.aud) ELSE Strs(c, ClaimsKeyAudience)

(***************************************************************************)
(* Validator                                                               *)
(***************************************************************************)

\* The largest leeway, clock reading and claim time of a run.
MaxLeeway == 1
MaxClock  == 4
MaxTime   == 3

\* The clock functions a Validator is configured with: none (nil, which Now
\* replaces by time.Now), a test clock frozen at one instant, and one that
\* answers the zero time.Time.
TimeFuncs == {"nil", "frozen", "zero"}

\* v.timeFunc(): what the configured clock function answers at wall-clock time t.
CallTimeFunc(f, t) ==
    CASE f = "time.Now" -> t
      [] f = "frozen"   -> 2
      [] f = "zero"     -> 0

\* Validator.Now: the cached instant when one is set, else one clock read that is
\* stored on the Validator.  Answers the instant (val, and now: the instant
\* before any leeway is applied), the Validator as it is left, and the number
\* of clock reads made.
Now(vv, t) ==
    IF vv.now # 0 THEN [val |-> vv.now, now |-> vv.now, v |-> vv, reads |-> 0]
    ELSE LET f == IF vv.timeFunc = "nil" THEN "time.Now" ELSE vv.timeFunc
             n == CallTimeFunc(f, t)
         IN  [val |-> n, now |-> n, v |-> [vv EXCEPT !.timeFunc = f, !.now = n], reads |-> 1]

\* time.Time.Before, answering true for equal instants too.
BeforeOrEqual(a, b) == a <= b

\* time.Time.Before.
Before(a, b) == a < b

\* Validator.PTime: Now().Add(-leeway).
PTime(vv, t) == LET n == Now(vv, t) IN [n EXCEPT !.val = n.now - vv.leeway]

\* Validator.FTime: Now().Add(+leeway).
FTime(vv, t) == LET n == Now(vv, t) IN [n EXCEPT !.val = n.now + vv.leeway]

\* subtle.ConstantTimeCompare(x, y) != 0.
ConstantTimeEqual(x, y) == Len(x) = Len(y) /\ \A i \in 1..Len(x) : x[i] = y[i]

\* What running one rule gives: its error, the Validator as the rule left it,
\* whether it panicked, the clock reads it made and the instant it observed
\* (saw = <<>> when it did not ask for the time, else <<instant>>).
RuleRet(err, vv, reads, saw) ==
    [err |-> err, v |-> vv, panic |-> FALSE, reads |-> reads, saw |-> saw]
RulePanic(vv) ==
    [err |-> NilErr, v |-> vv, panic |-> TRUE, reads |-> 0, saw |-> <<>>]

\* The rule of WithVerifyExpiration(required).
VerifyExpiration(required, vv, t, claims) ==
    LET exp == GetExpirationTime(claims) IN
    IF exp.panic THEN RulePanic(vv)
    ELSE IF exp.val = 0 THEN RuleRet(errorIfRequired(required, "exp"), vv, 0, <<>>)
    ELSE LET p == PTime(vv, t)
         IN  RuleRet(errorIfFalse(Before(p.val, exp.val), ErrTokenExpired),
                     p.v, p.reads, <<p.now>>)

\* The rule of WithVerifyIssuedAt(required).
VerifyIssuedAt(required, vv, t, claims) ==
    LET iat == GetIssuedAt(claims) IN
    IF iat.panic THEN RulePanic(vv)
    ELSE IF iat.val = 0 THEN RuleRet(errorIfRequired(required, "iat"), vv, 0, <<>>)
    ELSE LET f == FTime(vv, t)
         IN  RuleRet(errorIfFalse(~Before(f.val, iat.val), ErrTokenUsedBeforeIssued),
                     f.v, f.reads, <<f.now>>)

\* The rule of WithVerifyNotBefore(required).
VerifyNotBefore(required, vv, t, claims) ==
    LET nbf == GetNotBefore(claims) IN
    IF nbf.panic THEN RulePanic(vv)
    ELSE IF nbf.val = 0 THEN RuleRet(errorIfRequired(required, "nbf"), vv, 0, <<>>)
    ELSE LET f == FTime(vv, t)
         IN  RuleRet(errorIfFalse(~Before(f.val, nbf.val), ErrTokenNotValidYet),
                     f.v, f.reads, <<f.now>>)

\* The loop of the audience rule: result and nonEmpty after every entry was seen.
AudResult(aud, audience)   == \E i \in 1..Len(aud) : ConstantTimeEqual(aud[i], audience)
AudNonEmpty(aud)           == \E i \in 1..Len(aud) : aud[i] # <<>>

\* The audience rule without its all-entries-empty case.
RequireAudienceNoEmptyCase(required, audience, vv, claims) ==
    LET aud == GetAudience(claims) IN
    IF aud.panic THEN RulePanic(vv)
    ELSE IF Len(aud.val) = 0 THEN RuleRet(errorIfRequired(required, "aud"), vv, 0, <<>>)
    ELSE RuleRet(errorIfFalse(AudResult(aud.val, audience), ErrTokenInvalidAudience),
                 vv, 0, <<>>)

\* The rule of WithRequireAudience(required, audience).
RequireAudience(required, audience, vv, claims) ==
    LET aud == GetAudience(claims) IN
    IF aud.panic THEN RulePanic(vv)
    ELSE IF Len(aud.val) = 0 THEN RuleRet(errorIfRequired(required, "aud"), vv, 0, <<>>)
    ELSE IF ~AudNonEmpty(aud.val)
         THEN RuleRet(errorIfRequired(required, "aud"), vv, 0, <<>>)
    ELSE RuleRet(errorIfFalse(AudResult(aud.val, audience), ErrTokenInvalidAudience),
                 vv, 0, <<>>)

\* The rule of WithVerifyIssuer(required, issuer).
VerifyIssuer(required, issuer, vv, claims) ==
    LET iss == GetIssuer(claims) IN
    IF iss.panic THEN RulePanic(vv)
    ELSE IF iss.val = <<>> THEN RuleRet(errorIfRequired(required, "iss"), vv, 0, <<>>)
    ELSE RuleRet(errorIfFalse(iss.val = issuer, ErrTokenInvalidIssuer), vv, 0, <<>>)

\* The rule of WithVerifySubject(required, subject).
VerifySubject(required, subject, vv, claims) ==
    LET sub == GetSubject(claims) IN
    IF sub.panic THEN RulePanic(vv)
    ELSE IF sub.val = <<>> THEN RuleRet(errorIfRequired(required, "sub"), vv, 0, <<>>)
    ELSE RuleRet(errorIfFalse(sub.val = subject, ErrTokenInvalidSubject), vv, 0, <<>>)

\* A rule value, as the With... options build it.
Rule(kind, required, expect) == [kind |-> kind, required |-> required, expect |-> expect]

\* validate(v, claims) for one ValidatorFunc of v.validators.  The two custom
\* rules are caller-supplied functions: one that always fails, and one that only
\* asks the Validator for the time.
RunRule(r, vv, t, claims) ==
    CASE r.kind = "exp" -> VerifyExpiration(r.required, vv, t, claims)
      [] r.kind = "iat" -> VerifyIssuedAt(r.required, vv, t, claims)
      [] r.kind = "nbf" -> VerifyNotBefore(r.required, vv, t, claims)
      [] r.kind = "aud" -> RequireAudience(r.required, r.expect, vv, claims)
      [] r.kind = "iss" -> VerifyIssuer(r.required, r.expect, vv, claims)
      [] r.kind = "sub" -> VerifySubject(r.required, r.expect, vv, claims)
      [] r.kind = "customFail" -> RuleRet(ErrCustomRule, vv, 0, <<>>)
      [] r.kind = "customNow" ->
            LET n == Now(vv, t) IN RuleRet(NilErr, n.v, n.reads, <<n.val>>)

\* cvt.Validate() of claims that implement ClaimsValidator.
SelfValidate(claims) == IF claims.self = "fail" THEN ErrSelfValidate ELSE NilErr

\* A Validate call: where it stands (pc: idle, rules, done, panic), the claims
\* it was given, the index of the next rule, the errors collected (errs), a log
\* of the rules run (ran), whether the claims' own Validate() ran, the clock
\* reads made, the wall-clock time the call began at, and what it returned.
NoClaims == RegisteredClaims(<<>>, 0, 0, 0, <<>>, <<>>, <<>>, "none")

\* The call before the current one did not return nil (or there was none).
NoCall == [n |-> 0, same |-> FALSE]

IdleCall ==
    [pc |-> "idle", claims |-> NoClaims, i |-> 0, errs |-> <<>>, ran |-> <<>>,
     selfRan |-> FALSE, selfErr |-> NilErr, reads |-> 0, start |-> 0, result |-> NilErr]

BeginCall(claims, t) == [IdleCall EXCEPT !.pc = "rules", !.claims = claims, !.i = 1, !.start = t]

\* Where the loop over v.validators goes after rule c.i answered err, when the
\* loop stops at the first failure.
NextRuleShortCircuit(c, vv, err) == IF err # NilErr THEN Len(vv.validators) + 1 ELSE c.i + 1

\* Where the loop over v.validators goes after rule c.i answered err.
NextRule(c, vv, err) == c.i + 1

\* One iteration of the loop of Validate: run rule c.i, keep its error if any.
RuleStep(c, vv, t) ==
    LET Kept(r, out) ==
            [call |-> [c EXCEPT !.pc = IF out.panic THEN "panic" ELSE "rules",
                                !.i = NextRule(c, vv, out.err),
                                !.errs = IF out.err # NilErr THEN Append(@, out.err) ELSE @,
                                !.ran = Append(@, [idx |-> c.i, rule |-> r, err |-> out.err,
                                                   saw |-> out.saw, panic |-> out.panic]),
                                !.reads = @ + out.reads],
             v |-> out.v]
    IN  Kept(vv.validators[c.i], RunRule(vv.validators[c.i], vv, t, c.claims))

\* The end of Validate: the claims' own Validate() when they implement
\* ClaimsValidator, then errors.Join of everything collected.
FinishStep(c) ==
    LET implements == c.claims.self # "none"
        selfErr    == IF implements THEN SelfValidate(c.claims) ELSE NilErr
        errs       == IF selfErr # NilErr THEN Append(c.errs, selfErr) ELSE c.errs
    IN  [c EXCEPT !.pc = "done", !.errs = errs, !.selfRan = implements,
                  !.selfErr = selfErr, !.result = JoinAll(errs)]

\* Validator.Validate(claims) run to its end in one go (as ParseWithClaims calls it).
RECURSIVE ValidateFrom(_, _, _)
ValidateFrom(c, vv, t) ==
    IF c.pc = "panic" THEN [call |-> c, v |-> vv]
    ELSE IF c.i > Len(vv.validators) THEN [call |-> FinishStep(c), v |-> vv]
    ELSE LET Rest(s) == ValidateFrom(s.call, s.v, t) IN Rest(RuleStep(c, vv, t))

Validate(vv, t, claims) == ValidateFrom(BeginCall(claims, t), vv, t)

\* NewValidator(WithLeeway(leeway), WithTimeFunc(f), rules...).
NewValidator(leeway, f, rules) ==
    [leeway |-> leeway, timeFunc |-> f, now |-> 0, validators |-> rules]

\* The rule lists the validators of the model are built with.
RuleLists ==
    { <<>>,
      <<Rule("exp", TRUE, <<>>)>>,
      <<Rule("exp", FALSE, <<>>), Rule("iss", TRUE, sA)>>,
      <<Rule("aud", TRUE, sB)>>,
      <<Rule("aud", FALSE, sC), Rule("sub", FALSE, sA)>>,
      <<Rule("aud", TRUE, <<>>)>>,
      <<Rule("iat", TRUE, <<>>), Rule("nbf", FALSE, <<>>), Rule("exp", TRUE, <<>>)>>,
      <<Rule("customFail", FALSE, <<>>), Rule("customNow", FALSE, <<>>),
        Rule("exp", FALSE, <<>>), Rule("iss", FALSE, sA)>> }

Validators ==
    { NewValidator(l, f, rs) : l \in 0..MaxLeeway, f \in TimeFuncs, rs \in RuleLists }

\* The claims handed to Validate.
RC(exp, iss, aud, self) == RegisteredClaims(<<>>, exp, 0, 0, iss, <<>>, aud, self)

AudLists == { <<>>, << <<>> >>, << <<>>, <<>> >>, <<sA, sB>>, << <<>>, sC >>, <<sC>> }

ValClaims ==
    { RC(e, i, <<>>, "none") : e \in 0..MaxTime, i \in {<<>>, sA, sB} }
    \cup { RC(0, <<>>, a, "none") : a \in AudLists }
    \cup { RegisteredClaims(<<>>, MaxTime, i, n, <<>>, sA, <<>>, "none") :
             i \in {0, 2, MaxTime}, n \in {0, MaxTime} }
    \cup { RC(MaxTime, sA, <<>>, "ok"), RC(MaxTime, sA, <<>>, "fail"), RC(1, sB, <<>>, "fail") }
    \cup { ClaimsMap(<<>>),
           ClaimsMap(ClaimsKeyExpirationTime :> TTime(2) @@ ClaimsKeyIssuer :> TStr(sA)),
           ClaimsMap(ClaimsKeyExpirationTime :> TStr(sA)),
           ClaimsMap(ClaimsKeyAudience :> TStrs(<<sA, sB>>)),
           ClaimsMap(ClaimsKeyAudience :> TAnys(<<sA, sB>>)),
           ClaimsMap(ClaimsKeyIssuer :> TInt(1)) }

ValInit ==
    /\ v \in Validators
    /\ clock = 1
    /\ vcall = IdleCall
    /\ vdone = NoCall

\* A caller calls v.Validate(claims).
ValidateBegin(claims) ==
    /\ vcall.pc \in {"idle", "done"}
    /\ vcall' = BeginCall(claims, clock)
    /\ vdone' = IF vcall.pc = "done" /\ vcall.result = NilErr
                THEN [n |-> 1, same |-> (vcall.claims = claims)]
                ELSE NoCall
    /\ UNCHANGED <<v, clock>>

\* The call runs its next rule.
ValidateRule ==
    /\ vcall.pc = "rules"
    /\ vcall.i <= Len(v.validators)
    /\ \E s \in {RuleStep(vcall, v, clock)} : vcall' = s.call /\ v' = s.v
    /\ UNCHANGED <<clock, vdone>>

\* The call ran every rule: self-check, join, return.
ValidateFinish ==
    /\ vcall.pc = "rules"
    /\ vcall.i > Len(v.validators)
    /\ vcall' = FinishStep(vcall)
    /\ UNCHANGED <<v, clock, vdone>>

\* Time passes.
Tick ==
    /\ clock < MaxClock
    /\ clock' = clock + 1
    /\ UNCHANGED <<v, vcall, vdone>>

(***************************************************************************)
(* base64url without padding (encoding/base64.RawURLEncoding)              *)
(***************************************************************************)

\* The character of a 6-bit value: A-Z, a-z, 0-9, '-', '_'.
B64Char(n) ==
    IF n < 26 THEN 65 + n
    ELSE IF n < 52 THEN 97 + (n - 26)
    ELSE IF n < 62 THEN 48 + (n - 52)
    ELSE IF n = 62 THEN 45
    ELSE 95

\* The 6-bit value of a character, -1 when it is not of the alphabet.
B64Index(c) ==
    IF c \in 65..90 THEN c - 65
    ELSE IF c \in 97..122 THEN c - 97 + 26
    ELSE IF c \in 48..57 THEN c - 48 + 52
    ELSE IF c = 45 THEN 62
    ELSE IF c = 95 THEN 63
    ELSE -1

\* Encode(b): base64.RawURLEncoding.EncodeToString.
RECURSIVE Encode(_)
Encode(b) ==
    IF Len(b) = 0 THEN <<>>
    ELSE IF Len(b) = 1
         THEN <<B64Char(b[1] \div 4), B64Char((b[1] % 4) * 16)>>
    ELSE IF Len(b) = 2
         THEN <<B64Char(b[1] \div 4), B64Char((b[1] % 4) * 16 + b[2] \div 16),
                B64Char((b[2] % 16) * 4)>>
    ELSE <<B64Char(b[1] \div 4), B64Char((b[1] % 4) * 16 + b[2] \div 16),
           B64Char((b[2] % 16) * 4 + b[3] \div 64), B64Char(b[3] % 64)>>
         \o Encode(SubSeq(b, 4, Len(b)))

\* The bytes of a run of 6-bit values whose length is not 1 modulo 4.  The bits
\* of the last value that do not fill a byte are dropped without a check.
RECURSIVE SextetsToBytes(_)
SextetsToBytes(x) ==
    IF Len(x) = 0 THEN <<>>
    ELSE IF Len(x) = 2 THEN <<x[1] * 4 + x[2] \div 16>>
    ELSE IF Len(x) = 3 THEN <<x[1] * 4 + x[2] \div 16, (x[2] % 16) * 16 + x[3] \div 4>>
    ELSE <<x[1] * 4 + x[2] \div 16, (x[2] % 16) * 16 + x[3] \div 4, (x[3] % 4) * 64 + x[4]>>
         \o SextetsToBytes(SubSeq(x, 5, Len(x)))


IsNewline(c) == c = 10 \/ c = 13
NotNewline(c) == ~IsNewline(c)

DecodeOk(b) == [ok |-> TRUE, val |-> b]
DecodeErr   == [ok |-> FALSE, val |-> <<>>]

\* Decode(s): base64.RawURLEncoding.DecodeString.  '\r' and '\n' are skipped, a
\* character outside the alphabet (the padding '=' too) and a lone trailing
\* character are errors.
Decode(s) ==
    LET Sextets(x) ==
            IF \E i \in 1..Len(x) : x[i] = -1 THEN DecodeErr
            ELSE IF Len(x) % 4 = 1 THEN DecodeErr
            ELSE DecodeOk(SextetsToBytes(x))
        Chars(chars) == Sextets([i \in 1..Len(chars) |-> B64Index(chars[i])])
    IN  Chars(SelectSeq(s, NotNewline))

(***************************************************************************)
(* The claims codec (msgpack.Marshal / msgpack.Unmarshal)                  *)
(*                                                                         *)
(* The formats the claims of the model need: fixmap, fixarray, fixstr,     *)
(* fixint, nil and the booleans.  Any other leading byte (the formats with *)
(* explicit lengths, floats, extensions) is answered as a decode error.    *)
(***************************************************************************)

TNil     == [t |-> "nil", val |-> 0]
TBool(x) == [t |-> "bool", val |-> x]
TMap(l)  == [t |-> "map[string]interface {}", val |-> l]

RECURSIVE Concat(_)
Concat(ss) == IF ss = <<>> THEN <<>> ELSE Head(ss) \o Concat(Tail(ss))

MarshalStr(s) == <<160 + Len(s)>> \o s

RECURSIVE MarshalValue(_)
MarshalValue(tv) ==
    CASE tv.t = "string" -> MarshalStr(tv.val)
      [] tv.t = "[]string" ->
            <<144 + Len(tv.val)>> \o Concat([i \in 1..Len(tv.val) |-> MarshalStr(tv.val[i])])
      [] tv.t = "[]interface {}" ->
            <<144 + Len(tv.val)>> \o Concat([i \in 1..Len(tv.val) |-> MarshalValue(tv.val[i])])
      [] tv.t = "int8" -> <<tv.val>>
      [] tv.t = "nil" -> <<192>>

\* The fields of a RegisteredClaims value that omitempty keeps, in the order of
\* the struct.  (The model's tokens carry no time fields.)
StructFields(c) ==
    (IF c.kid # <<>> THEN <<<<ClaimsKeyKeyID, TStr(c.kid)>>>> ELSE <<>>)
    \o (IF c.iss # <<>> THEN <<<<ClaimsKeyIssuer, TStr(c.iss)>>>> ELSE <<>>)
    \o (IF c.sub # <<>> THEN <<<<ClaimsKeySubject, TStr(c.sub)>>>> ELSE <<>>)
    \o (IF c.aud # <<>> THEN <<<<ClaimsKeyAudience, TStrs(c.aud)>>>> ELSE <<>>)

\* The entries of a ClaimsMap in the order the encoder visits them (Go leaves
\* the order of a map's keys open: order is one of them).
MapFields(c, order) == [i \in 1..Len(order) |-> <<order[i], c.m[order[i]]>>]

\* msgpack.Marshal(claims): a map of the fields.
Marshal(c, order) ==
    LET fields == IF c.kind = "registered" THEN StructFields(c) ELSE MapFields(c, order)
    IN  <<128 + Len(fields)>>
        \o Concat([i \in 1..Len(fields) |-> MarshalStr(fields[i][1]) \o MarshalValue(fields[i][2])])

\* The orders the keys of a ClaimsMap can be visited in.
KeyOrders(c) ==
    IF c.kind = "registered" THEN {<<>>}
    ELSE { o \in [1..Cardinality(DOMAIN c.m) -> DOMAIN c.m] :
             \A i, j \in DOMAIN o : i # j => o[i] # o[j] }

ValueOk(tv, next) == [ok |-> TRUE, val |-> tv, next |-> next]
ValueErr          == [ok |-> FALSE, val |-> TNil, next |-> 0]

\* Decoder.DecodeInterface: the value that starts at b[p], and where the next
\* one starts.  DecodeItems reads n values in a row.
RECURSIVE DecodeValue(_, _), DecodeItems(_, _, _)
DecodeValue(b, p) ==
    IF p > Len(b) THEN ValueErr
    ELSE LET c == b[p]
             Map(items) ==
                 IF ~items.ok THEN ValueErr
                 ELSE IF \E i \in 1..(c - 128) : items.val[2 * i - 1].t # "string" THEN ValueErr
                 ELSE ValueOk(TMap(items.val), items.next)
             Array(items) ==
                 IF ~items.ok THEN ValueErr ELSE ValueOk(TAnys(items.val), items.next)
         IN
         IF c < 128 THEN ValueOk(TInt(c), p + 1)
         ELSE IF c < 144 THEN Map(DecodeItems(b, p + 1, 2 * (c - 128)))
         ELSE IF c < 160 THEN Array(DecodeItems(b, p + 1, c - 144))
         ELSE IF c < 192 THEN
              IF p + (c - 160) > Len(b) THEN ValueErr
              ELSE ValueOk(TStr(SubSeq(b, p + 1, p + (c - 160))), p + (c - 160) + 1)
         ELSE IF c = 192 THEN ValueOk(TNil, p + 1)
         ELSE IF c = 194 THEN ValueOk(TBool(FALSE), p + 1)
         ELSE IF c = 195 THEN ValueOk(TBool(TRUE), p + 1)
         ELSE IF c >= 224 THEN ValueOk(TInt(c - 256), p + 1)
         ELSE ValueErr
DecodeItems(b, p, n) ==
    IF n = 0 THEN [ok |-> TRUE, val |-> <<>>, next |-> p]
    ELSE LET Items(first) ==
                 IF ~first.ok THEN [ok |-> FALSE, val |-> <<>>, next |-> 0]
                 ELSE LET More(rest) ==
                              IF ~rest.ok THEN rest
                              ELSE [ok |-> TRUE, val |-> <<first.val>> \o rest.val,
                                    next |-> rest.next]
                      IN  More(DecodeItems(b, first.next, n - 1))
         IN  Items(DecodeValue(b, p))

\* The map a decoded run of key, value, key, value, ... stands for: of two
\* entries with one key the later one stays.
RECURSIVE PairsToMap(_, _)
PairsToMap(items, m) ==
    IF items = <<>> THEN m
    ELSE PairsToMap(SubSeq(items, 3, Len(items)),
                    [k \in DOMAIN m \cup {items[1].val} |->
                        IF k = items[1].val THEN items[2] ELSE m[k]])

IsStrList(tv) == tv.t = "[]interface {}" /\ \A i \in 1..Len(tv.val) : tv.val[i].t = "string"
StrList(tv) == [i \in 1..Len(tv.val) |-> tv.val[i].val]

UnmarshalOk(c) == [ok |-> TRUE, claims |-> c]
UnmarshalErr   == [ok |-> FALSE, claims |-> NoClaims]

\* Decoding into a *RegisteredClaims: a string field takes a string (nil leaves it
\* zero), Audience takes an array of strings, the time fields take a timestamp
\* (none of the formats here), keys that name no field are skipped.
StructFromMap(m) ==
    LET strOk(k) == k \notin DOMAIN m \/ m[k].t \in {"string", "nil"}
        str(k)   == IF k \in DOMAIN m /\ m[k].t = "string" THEN m[k].val ELSE <<>>
        timeOk(k) == k \notin DOMAIN m \/ m[k].t = "nil"
        audOk    == ClaimsKeyAudience \notin DOMAIN m
                    \/ m[ClaimsKeyAudience].t = "nil" \/ IsStrList(m[ClaimsKeyAudience])
        aud      == IF ClaimsKeyAudience \in DOMAIN m /\ IsStrList(m[ClaimsKeyAudience])
                    THEN StrList(m[ClaimsKeyAudience]) ELSE <<>>
    IN  IF /\ strOk(ClaimsKeyKeyID) /\ strOk(ClaimsKeyIssuer) /\ strOk(ClaimsKeySubject)
           /\ timeOk(ClaimsKeyExpirationTime) /\ timeOk(ClaimsKeyIssuedAt)
           /\ timeOk(ClaimsKeyNotBefore) /\ audOk
        THEN UnmarshalOk(RegisteredClaims(str(ClaimsKeyKeyID), 0, 0, 0, str(ClaimsKeyIssuer),
                                          str(ClaimsKeySubject), aud, "none"))
        ELSE UnmarshalErr

\* msgpack.Unmarshal(body, claims) into a *ClaimsMap ("map") or a
\* *RegisteredClaims ("registered").  The first value of the body is decoded;
\* bytes after it are not looked at.  nil leaves the container empty.
Unmarshal(body, container) ==
    LET Into(top) ==
            IF ~top.ok THEN UnmarshalErr
            ELSE IF top.val.t = "nil" \/ (top.val = TAnys(<<>>) /\ container = "registered")
                 THEN UnmarshalOk(IF container = "map" THEN ClaimsMap(<<>>) ELSE NoClaims)
            ELSE IF top.val.t # "map[string]interface {}" THEN UnmarshalErr
            ELSE IF container = "map" THEN UnmarshalOk(ClaimsMap(PairsToMap(top.val.val, <<>>)))
            ELSE StructFromMap(PairsToMap(top.val.val, <<>>))
    IN  Into(DecodeValue(body, 1))

(***************************************************************************)
(* Keys and the cryptographic primitives                                   *)
(*                                                                         *)
(* The keyed hash and the signature scheme are stand-ins with the one      *)
(* property the library relies on: the tag is a function of the hash, the  *)
(* key and the message, and different inputs give different tags.          *)
(***************************************************************************)

\* A key as the caller passes it (an interface value): its dynamic type and bytes.
BytesKey(b)   == [t |-> "[]byte", val |-> b]
EdPrivate(b)  == [t |-> "ed25519.PrivateKey", val |-> b]
EdPublic(b)   == [t |-> "ed25519.PublicKey", val |-> b]

Repeat(x, n) == [i \in 1..n |-> x]

\* ed25519.PublicKeySize, ed25519.PrivateKeySize, ed25519.SignatureSize
EdPublicKeySize  == 32
EdPrivateKeySize == 64
EdSignatureSize  == 64

\* A key pair: the private key holds the seed, then the public key.
EdPubBytes(seed)  == Repeat((seed * 7 + 3) % 256, EdPublicKeySize)
EdPrivBytes(seed) == Repeat(seed, EdPrivateKeySize - EdPublicKeySize) \o EdPubBytes(seed)

\* KeyAs[T](key): the type assertion key.(T).
KeyAs(T, key) == key.t = T

ErrInvalidKeyType  == <<"key is of invalid type">>
ErrInvalidKey      == <<"invalid key">>
ErrTagInvalid      == <<"auth tag is invalid">>
ErrWrongTag        == <<"auth tag is wrong">>

\* mult to the power k, modulo modulus.
RECURSIVE PowMod(_, _, _)
PowMod(mult, k, modulus) ==
    IF k = 0 THEN 1
    ELSE LET h == PowMod(mult, k \div 2, modulus)
             sq == (h * h) % modulus
         IN  IF k % 2 = 0 THEN sq ELSE (sq * mult) % modulus

\* The sum over i in lo..hi of (x[i] + 1) * mult^i, modulo modulus.
RECURSIVE PolySum(_, _, _, _, _)
PolySum(x, lo, hi, mult, modulus) ==
    IF lo > hi THEN 0
    ELSE IF lo = hi THEN ((x[lo] + 1) * PowMod(mult, lo, modulus)) % modulus
    ELSE LET mid == (lo + hi) \div 2
         IN  (PolySum(x, lo, mid, mult, modulus) + PolySum(x, mid + 1, hi, mult, modulus))
                 % modulus

\* `size` bytes that depend on every byte of the key and of the message.
Digest(size, key, msg) ==
    LET Bytes(d1, d2) ==
            [i \in 1..size |->
                CASE i = 1 -> d1 % 256
                  [] i = 2 -> d1 \div 256
                  [] i = 3 -> d2 % 256
                  [] i = 4 -> d2 \div 256
                  [] OTHER -> (d1 + i * d2) % 256]
        Sums(x) == Bytes(PolySum(x, 1, Len(x), 31, 32749), PolySum(x, 1, Len(x), 37, 32719))
    IN  Sums(<<size, Len(key)>> \o key \o msg)

AuthOk(tag)  == [err |-> NilErr, tag |-> tag]
AuthErr(err) == [err |-> err, tag |-> <<>>]

\* hmacAlgo.Auth
HmacAuth(h, prefix, body, key) ==
    IF ~KeyAs("[]byte", key) THEN AuthErr(ErrInvalidKeyType)
    ELSE AuthOk(Digest(h.size, key.val, prefix \o body))

\* hmacAlgo.Verify
HmacVerify(h, prefix, body, key, tag) ==
    IF ~KeyAs("[]byte", key) THEN ErrInvalidKeyType
    ELSE IF Len(tag) # h.size THEN ErrTagInvalid
    ELSE IF tag # Digest(h.size, key.val, prefix \o body) THEN ErrWrongTag
    ELSE NilErr

\* algoEd25519.Auth
EdAuth(a, prefix, body, key) ==
    IF ~KeyAs("ed25519.PrivateKey", key) THEN AuthErr(ErrInvalidKeyType)
    ELSE IF Len(key.val) # EdPrivateKeySize THEN AuthErr(ErrInvalidKey)
    ELSE AuthOk(Digest(EdSignatureSize,
                       SubSeq(key.val, EdPrivateKeySize - EdPublicKeySize + 1, EdPrivateKeySize),
                       prefix \o body))

\* algoEd25519.Verify
EdVerify(a, prefix, body, key, tag) ==
    IF ~KeyAs("ed25519.PublicKey", key) THEN ErrInvalidKeyType
    ELSE IF Len(key.val) # EdPublicKeySize THEN ErrInvalidKey
    ELSE IF Len(tag) # EdSignatureSize THEN ErrTagInvalid
    ELSE IF tag # Digest(EdSignatureSize, key.val, prefix \o body) THEN ErrWrongTag
    ELSE NilErr

\* Algorithm.Auth and Algorithm.Verify, by the type behind the interface.
AlgAuth(alg, prefix, body, key) ==
    IF alg.family = "hmac" THEN HmacAuth(alg, prefix, body, key)
    ELSE EdAuth(alg, prefix, body, key)

AlgVerify(alg, prefix, body, key, tag) ==
    IF alg.family = "hmac" THEN HmacVerify(alg, prefix, body, key, tag)
    ELSE EdVerify(alg, prefix, body, key, tag)

\* The key that verifies what `key` authenticated.
VerificationKey(key) ==
    IF key.t = "ed25519.PrivateKey"
    THEN EdPublic(SubSeq(key.val, EdPrivateKeySize - EdPublicKeySize + 1, EdPrivateKeySize))
    ELSE key

(***************************************************************************)
(* Token: wire encoding                                                    *)
(***************************************************************************)

\* Token.Prefix: Type + "_" + t.Algorithm.Name()
Prefix(alg) == sBWT \o <<95>> \o alg.name

\* Token.Authenticate(key), with the claims encoder visiting a ClaimsMap's keys
\* in `order`: the wire string and the tag, or the error of Auth.
Authenticate(alg, claims, order, key) ==
    LET Sealed(body, auth) ==
            IF auth.err # NilErr
            THEN [err |-> auth.err, wire |-> <<>>, body |-> body, tag |-> <<>>]
            ELSE [err |-> NilErr,
                  wire |-> Prefix(alg) \o <<46>> \o Encode(body) \o <<46>> \o Encode(auth.tag),
                  body |-> body, tag |-> auth.tag]
        Body(body) == Sealed(body, AlgAuth(alg, Prefix(alg), body, key))
    IN  Body(Marshal(claims, order))

(***************************************************************************)
(* Parser                                                                  *)
(***************************************************************************)

ErrTokenMalformed     == <<"token is malformed">>
ErrTokenUnverifiable  == <<"token is unverifiable">>
ErrTokenTagInvalid    == <<"token tag is invalid">>
ErrTokenInvalidClaims == <<"token has invalid claims">>
ErrBase64             == <<"illegal base64 data">>
ErrMsgpack            == <<"msgpack: decoding failed">>
ErrNoKeyfunc          == <<"no keyfunc was provided">>
ErrKeyfunc            == <<"keyfunc failed">>

\* Where the first sep is in s, 0 when there is none.
IndexByte(s, sep) ==
    IF \E i \in 1..Len(s) : s[i] = sep
    THEN CHOOSE i \in 1..Len(s) : s[i] = sep /\ \A j \in 1..(i - 1) : s[j] # sep
    ELSE 0

\* strings.Split(s, sep)
RECURSIVE Split(_, _)
Split(s, sep) ==
    LET i == IndexByte(s, sep) IN
    IF i = 0 THEN <<s>>
    ELSE <<SubSeq(s, 1, i - 1)>> \o Split(SubSeq(s, i + 1, Len(s)), sep)

\* strings.Cut(s, sep)
Cut(s, sep) ==
    LET i == IndexByte(s, sep) IN
    IF i = 0 THEN [before |-> s, after |-> <<>>, found |-> FALSE]
    ELSE [before |-> SubSeq(s, 1, i - 1), after |-> SubSeq(s, i + 1, Len(s)), found |-> TRUE]

\* A *Token: isNil when the pointer is nil; claimsSet / tagSet tell whether the
\* field was assigned.
NilToken ==
    [isNil |-> TRUE, alg |-> NilAlg, claimsSet |-> FALSE, claims |-> NoClaims,
     tagSet |-> FALSE, tag |-> <<>>]
NewToken == [NilToken EXCEPT !.isNil = FALSE]

NoRaw == [parts |-> <<>>, claims |-> <<>>]

Unverified(token, raw, err, log) == [token |-> token, raw |-> raw, err |-> err, log |-> log]

\* ParseUnverified(tokenString, claims): the token, the raw data, the error,
\* and the stages gone through.
ParseUnverified(tokenString, container, registry) ==
    LET Unmarshalled(tok, raw1, un) ==
            IF ~un.ok
            THEN Unverified(tok, raw1, Join(ErrTokenMalformed, ErrMsgpack),
                            <<"segments", "prefix", "algorithm", "claims">>)
            ELSE Unverified([tok EXCEPT !.claimsSet = TRUE, !.claims = un.claims], raw1, NilErr,
                            <<"segments", "prefix", "algorithm", "claims">>)
        Decoded(tok, raw0, dec) ==
            IF ~dec.ok
            THEN Unverified(tok, raw0, Join(ErrTokenMalformed, ErrBase64),
                            <<"segments", "prefix", "algorithm", "claims">>)
            ELSE Unmarshalled(tok, [raw0 EXCEPT !.claims = dec.val],
                              Unmarshal(dec.val, container))
        Resolved(parts, raw0, alg) ==
            IF alg = NilAlg
            THEN Unverified([NewToken EXCEPT !.alg = alg], raw0, ErrTokenUnverifiable,
                            <<"segments", "prefix", "algorithm">>)
            ELSE Decoded([NewToken EXCEPT !.alg = alg], raw0, Decode(parts[2]))
        Prefixed(parts, raw0, cut) ==
            IF ~cut.found \/ cut.before # sBWT \/ cut.after = <<>>
            THEN Unverified(NilToken, raw0, ErrTokenMalformed, <<"segments", "prefix">>)
            ELSE Resolved(parts, raw0, GetAlgorithm(registry, cut.after))
        Parts(parts) ==
            IF Len(parts) # 3
            THEN Unverified(NilToken, [NoRaw EXCEPT !.parts = parts], ErrTokenMalformed,
                            <<"segments">>)
            ELSE Prefixed(parts, [NoRaw EXCEPT !.parts = parts], Cut(parts[1], 95))
    IN  Parts(Split(tokenString, 46))

\* A Keyfunc the caller passes: none (nil), one that fails, KeyfuncFrom(key),
\* and one that picks the key by the token's key identifier.
Keyfunc(kind, key) == [kind |-> kind, key |-> key]
NoKey == [t |-> "none", val |-> <<>>]

\* The keys of the model.
K1 == <<1, 2, 3>>
K2 == <<9>>
SignKeys   == {BytesKey(K1), EdPrivate(EdPrivBytes(1))}
VerifyKeys == {BytesKey(K1), BytesKey(K2), EdPublic(EdPubBytes(1)), EdPublic(K2)}

Keyfuncs ==
    {Keyfunc("nil", NoKey), Keyfunc("fail", NoKey), Keyfunc("byKid", NoKey)}
    \cup {Keyfunc("from", k) : k \in VerifyKeys}

\* keyFunc(token): the key, an error, or the panic of an accessor the callback
\* used.  The callback "byKid" answers K1 for the key identifier "c".
CallKeyfunc(kf, token) ==
    CASE kf.kind = "fail" -> [panic |-> FALSE, err |-> ErrKeyfunc, key |-> NoKey]
      [] kf.kind = "from" -> [panic |-> FALSE, err |-> NilErr, key |-> kf.key]
      [] kf.kind = "byKid" ->
            LET kid == GetKeyID(token.claims) IN
            IF kid.panic THEN [panic |-> TRUE, err |-> NilErr, key |-> NoKey]
            ELSE IF kid.val = sC THEN [panic |-> FALSE, err |-> NilErr, key |-> BytesKey(K1)]
            ELSE [panic |-> FALSE, err |-> ErrKeyfunc, key |-> NoKey]

\* A ParseWithClaims call: where it stands (pc: idle, tag, keyfunc, verify,
\* validate, returned, panic), what it was called with, the token and the raw
\* data so far, the error it returned, the stages it went through (log), the key
\* the callback gave, and the token as the callback received it (seen).
IdleParse ==
    [pc |-> "idle", container |-> "map", keyfunc |-> Keyfunc("nil", NoKey),
     hasValidator |-> TRUE, token |-> NilToken, raw |-> NoRaw, err |-> NilErr,
     log |-> <<>>, key |-> NoKey, seen |-> NilToken]

\* ParseWithClaims, from its call to the return of ParseUnverified.
StepUnverified(tokenString, container, kf, hasValidator, registry) ==
    LET Called(u) ==
            [IdleParse EXCEPT !.pc = IF u.err # NilErr THEN "returned" ELSE "tag",
                              !.container = container, !.keyfunc = kf,
                              !.hasValidator = hasValidator,
                              !.token = u.token, !.raw = u.raw, !.err = u.err, !.log = u.log]
    IN  Called(ParseUnverified(tokenString, container, registry))

\* token.Tag, err = Decode(raw.Parts[2])
StepDecodeTag(pc) ==
    LET Tag(d) ==
            [pc EXCEPT !.pc = IF d.ok THEN "keyfunc" ELSE "returned",
                       !.token = [@ EXCEPT !.tagSet = TRUE, !.tag = d.val],
                       !.err = IF d.ok THEN NilErr ELSE Join(ErrTokenMalformed, ErrBase64),
                       !.log = Append(@, "tag")]
    IN  Tag(Decode(pc.raw.parts[3]))

\* The nil check of keyFunc and its call.
StepKeyfunc(pc) ==
    IF pc.keyfunc.kind = "nil"
    THEN [pc EXCEPT !.pc = "returned", !.err = Join(ErrNoKeyfunc, ErrTokenUnverifiable),
                    !.log = Append(@, "nokeyfunc")]
    ELSE LET Key(r) ==
                 [pc EXCEPT !.pc = IF r.panic THEN "panic"
                                   ELSE IF r.err # NilErr THEN "returned" ELSE "verify",
                            !.err = IF r.err # NilErr THEN Join(ErrTokenUnverifiable, r.err)
                                    ELSE NilErr,
                            !.key = r.key, !.seen = pc.token,
                            !.log = Append(@, "keyfunc")]
         IN  Key(CallKeyfunc(pc.keyfunc, pc.token))

\* The verify stage, going on to the validator whatever Verify answered.
StepVerifyThenValidateAnyway(pc) ==
    LET Verified(err) ==
            [pc EXCEPT !.pc = "validate",
                       !.err = IF err # NilErr THEN Join(ErrTokenTagInvalid, err) ELSE NilErr,
                       !.log = Append(@, "verify")]
    IN  Verified(AlgVerify(pc.token.alg, Prefix(pc.token.alg), pc.raw.claims, pc.key,
                           pc.token.tag))

\* err = token.Algorithm.Verify(token.Prefix(), raw.Claims, key, token.Tag)
StepVerify(pc) ==
    LET Verified(err) ==
            [pc EXCEPT !.pc = IF err # NilErr THEN "returned" ELSE "validate",
                       !.err = IF err # NilErr THEN Join(ErrTokenTagInvalid, err) ELSE NilErr,
                       !.log = Append(@, "verify")]
    IN  Verified(AlgVerify(pc.token.alg, Prefix(pc.token.alg), pc.raw.claims, pc.key,
                           pc.token.tag))

\* p.validator.Validate(token.Claims) when a validator is set, and the return.
StepValidate(pc, vv, t) ==
    IF ~pc.hasValidator THEN [call |-> [pc EXCEPT !.pc = "returned"], v |-> vv]
    ELSE LET Ret(r) ==
                 [call |-> [pc EXCEPT !.pc = IF r.call.pc = "panic" THEN "panic" ELSE "returned",
                                      !.err = IF r.call.pc # "panic" /\ r.call.result # NilErr
                                              THEN Join(ErrTokenInvalidClaims, r.call.result)
                                              ELSE @,
                                      !.log = Append(@, "validate")],
                  v |-> r.v]
         IN  Ret(Validate(vv, t, pc.token.claims))

\* What was handed to Authenticate, or where the wire string came from.
NoneSent ==
    [kind |-> "none", alg |-> NilAlg, claims |-> NoClaims, key |-> NoKey,
     body |-> <<>>, tag |-> <<>>, err |-> NilErr, flipped |-> <<>>]

\* New(alg, claims).Authenticate(key)
DoAuthenticate(alg, claims, order, key) ==
    /\ sent.kind = "none"
    /\ \E a \in {Authenticate(alg, claims, order, key)} :
       /\ wire' = a.wire
       /\ sent' = [NoneSent EXCEPT !.kind = IF a.err = NilErr THEN "authenticated" ELSE "failed",
                                   !.alg = alg, !.claims = claims, !.key = key,
                                   !.body = a.body, !.tag = a.tag, !.err = a.err]
    /\ UNCHANGED pcall

\* A string arrives that this library did not produce.
Receive(w) ==
    /\ sent.kind = "none"
    /\ wire' = w
    /\ sent' = [NoneSent EXCEPT !.kind = "received"]
    /\ UNCHANGED pcall

\* The value of a byte with one bit flipped.
FlipBit(c, bit) == IF (c \div (2 ^ bit)) % 2 = 1 THEN c - 2 ^ bit ELSE c + 2 ^ bit

\* The positions of the encoded body and of the encoded tag in the wire string
\* Authenticate returned.
BodySegment == (Len(Prefix(sent.alg)) + 2)..(Len(Prefix(sent.alg)) + 1 + Len(Encode(sent.body)))
TagSegment  == (Len(wire) - Len(Encode(sent.tag)) + 1)..Len(wire)

\* One bit of the body segment or of the tag segment flips in transit.
Tamper(i, bit) ==
    /\ sent.kind = "authenticated"
    /\ sent.flipped = <<>>
    /\ pcall.pc = "idle"
    /\ i \in BodySegment \cup TagSegment
    /\ wire' = [wire EXCEPT ![i] = FlipBit(@, bit)]
    /\ sent' = [sent EXCEPT !.flipped = <<i, bit>>]
    /\ UNCHANGED pcall

\* p.ParseWithClaims(wire, container, keyfunc) is called and ParseUnverified returns.
ParseBegin(container, kf, hasValidator) ==
    /\ sent.kind \in {"authenticated", "received"}
    /\ pcall.pc = "idle"
    /\ pcall' = StepUnverified(wire, container, kf, hasValidator, registeredAlgs)
    /\ UNCHANGED <<wire, sent, v>>

ParseDecodeTag ==
    /\ pcall.pc = "tag"
    /\ pcall' = StepDecodeTag(pcall)
    /\ UNCHANGED <<wire, sent, v>>

ParseKeyfunc ==
    /\ pcall.pc = "keyfunc"
    /\ pcall' = StepKeyfunc(pcall)
    /\ UNCHANGED <<wire, sent, v>>

ParseVerify ==
    /\ pcall.pc = "verify"
    /\ pcall' = StepVerify(pcall)
    /\ UNCHANGED <<wire, sent, v>>

ParseValidate ==
    /\ pcall.pc = "validate"
    /\ \E s \in {StepValidate(pcall, v, clock)} : pcall' = s.call /\ v' = s.v
    /\ UNCHANGED <<wire, sent>>

(***************************************************************************)
(* Specifications of the registry alone and of the validator alone         *)
(***************************************************************************)

TokIdle ==
    /\ wire = <<>>
    /\ sent = NoneSent
    /\ pcall = IdleParse

ValIdle ==
    /\ v = NewValidator(0, "nil", <<>>)
    /\ clock = 1
    /\ vcall = IdleCall
    /\ vdone = NoCall

InitReg == RegInit /\ ValIdle /\ TokIdle

NextReg ==
    \/ \E alg \in CustomAlgs \cup {HS256, EdDSA} : RegisterAlgorithm(alg) /\ UNCHANGED <<valVars, tokVars>>
    \/ \E name \in LookupNames : DoGetAlgorithm(name) /\ UNCHANGED <<valVars, tokVars>>
    \/ DoListAlgorithms /\ UNCHANGED <<valVars, tokVars>>

SpecReg == InitReg /\ [][NextReg]_vars

InitVal == RegInit /\ ValInit /\ TokIdle

NextVal ==
    \/ \E claims \in ValClaims : ValidateBegin(claims) /\ UNCHANGED <<regVars, tokVars>>
    \/ ValidateRule /\ UNCHANGED <<regVars, tokVars>>
    \/ ValidateFinish /\ UNCHANGED <<regVars, tokVars>>
    \/ Tick /\ UNCHANGED <<regVars, tokVars>>

SpecVal == InitVal /\ [][NextVal]_vars

(***************************************************************************)
(* Specification of the token pipeline: registration, Authenticate, a      *)
(* string from elsewhere, ParseWithClaims                                  *)
(***************************************************************************)

\* How many algorithms are registered before the first token is made.
MaxTokRegs == 1

\* The validators a Parser is built with: NewValidator() and two with one rule.
ParserValidators ==
    { NewValidator(0, "nil", <<>>),
      NewValidator(0, "nil", <<Rule("sub", TRUE, sA)>>),
      NewValidator(0, "nil", <<Rule("aud", TRUE, sB)>>) }

\* The claims tokens are made of.
TokClaims ==
    { ClaimsMap(<<>>),
      ClaimsMap(ClaimsKeySubject :> TStr(sA)),
      ClaimsMap(ClaimsKeySubject :> TStr(sB) @@ ClaimsKeyAudience :> TStrs(<<sA, sB>>)),
      ClaimsMap(ClaimsKeyKeyID :> TInt(5)),
      RegisteredClaims(sC, 0, 0, 0, <<>>, sA, <<sA, sB>>, "none"),
      RegisteredClaims(<<>>, 0, 0, 0, <<>>, sB, <<>>, "none") }

\* The algorithm objects a caller can hold: the registered ones and HS256,
\* which stays reachable through the package variable when its name is taken over.
HeldAlgs == {registeredAlgs[k] : k \in DOMAIN registeredAlgs} \cup {HS256}

\* Strings that did not come from Authenticate.
SubBody == Encode(Marshal(ClaimsMap(ClaimsKeySubject :> TStr(sA)), <<ClaimsKeySubject>>))
GoodHS256 == Authenticate(HS256, ClaimsMap(ClaimsKeySubject :> TStr(sA)), <<ClaimsKeySubject>>,
                          BytesKey(K1))
GoodTag == Encode(GoodHS256.tag)
Dot(a, b, c) == a \o <<46>> \o b \o <<46>> \o c

ReceivedWires ==
    { <<>>,                                                   \* ""
      sBWT \o <<95>> \o sHS256 \o <<46>> \o SubBody,          \* two segments
      Dot(sBWT \o <<95>> \o sHS256, SubBody, GoodTag) \o <<46>>,   \* four segments
      Dot(sBWT \o sHS256, SubBody, GoodTag),                  \* no '_'
      Dot(sBWT \o <<95>>, SubBody, GoodTag),                  \* empty algorithm name
      Dot(<<98, 119, 116, 95>> \o sHS256, SubBody, GoodTag),  \* bwt_HS256
      Dot(sBWT \o <<95>> \o shs256, SubBody, GoodTag),        \* BWT_hs256
      Dot(sBWT \o <<95>> \o sHs256, SubBody, GoodTag),        \* BWT_Hs256
      Dot(sBWT \o <<95>> \o sZZ, SubBody, GoodTag),           \* unregistered algorithm
      Dot(sBWT \o <<95>> \o sZZ, <<33>>, GoodTag),            \* unregistered, body "!"
      Dot(sBWT \o <<95>> \o sHS256, <<33>>, GoodTag),         \* body "!"
      Dot(sBWT \o <<95>> \o sHS256, Encode(<<193>>), GoodTag),     \* body no msgpack
      Dot(sBWT \o <<95>> \o sHS256, Encode(<<161, 97>>), GoodTag), \* body a string
      Dot(sBWT \o <<95>> \o sHS256, SubBody, <<33>>),         \* tag "!"
      Dot(sBWT \o <<95>> \o sHS256, SubBody, <<>>),           \* empty tag
      Dot(sBWT \o <<95>> \o sHS256, SubBody, Encode(K1)) }    \* short tag

Init ==
    /\ RegInit
    /\ v \in ParserValidators
    /\ clock = 1
    /\ vcall = IdleCall
    /\ vdone = NoCall
    /\ TokIdle

\* new(Parser) has no validator; NewParser always has one.
ValidatorChoices == IF v.validators = <<>> THEN BOOLEAN ELSE {TRUE}

Next ==
    \/ \E alg \in CustomAlgs :
          /\ sent.kind = "none"
          /\ Len(regLog) < Len(BuiltinAlgs) + MaxTokRegs
          /\ RegisterAlgorithm(alg)
          /\ UNCHANGED <<valVars, tokVars>>
    \/ \E alg \in HeldAlgs, claims \in TokClaims, key \in SignKeys :
          \E order \in KeyOrders(claims) :
              DoAuthenticate(alg, claims, order, key) /\ UNCHANGED <<regVars, valVars>>
    \/ \E w \in ReceivedWires : Receive(w) /\ UNCHANGED <<regVars, valVars>>
    \/ \E container \in {"map", "registered"}, kf \in Keyfuncs, hasValidator \in ValidatorChoices :
          ParseBegin(container, kf, hasValidator) /\ UNCHANGED <<regVars, clock, vcall, vdone>>
    \/ ParseDecodeTag /\ UNCHANGED <<regVars, clock, vcall, vdone>>
    \/ ParseKeyfunc /\ UNCHANGED <<regVars, clock, vcall, vdone>>
    \/ ParseVerify /\ UNCHANGED <<regVars, clock, vcall, vdone>>
    \/ ParseValidate /\ UNCHANGED <<regVars, clock, vcall, vdone>>

Spec == Init /\ [][Next]_vars

(***************************************************************************)
(* Specification of a token damaged in transit: Authenticate with a        *)
(* built-in algorithm, one bit flip, ParseWithClaims with the right key    *)
(***************************************************************************)

InitTamper ==
    /\ RegInit
    /\ v = NewValidator(0, "nil", <<>>)
    /\ clock = 1
    /\ vcall = IdleCall
    /\ vdone = NoCall
    /\ TokIdle

TamperClaims ==
    { ClaimsMap(ClaimsKeySubject :> TStr(sA)),
      RegisteredClaims(<<>>, 0, 0, 0, sA, sB, <<>>, "none") }

NextTamper ==
    \/ \E i \in 1..Len(BuiltinAlgs), claims \in TamperClaims, key \in SignKeys :
          \E order \in KeyOrders(claims) :
              DoAuthenticate(BuiltinAlgs[i], claims, order, key) /\ UNCHANGED <<regVars, valVars>>
    \/ \E i \in 1..Len(wire), bit \in 0..7 :
          Tamper(i, bit) /\ UNCHANGED <<regVars, valVars>>
    \/ ParseBegin(sent.claims.kind, Keyfunc("from", VerificationKey(sent.key)), TRUE)
          /\ UNCHANGED <<regVars, clock, vcall, vdone>>
    \/ ParseDecodeTag /\ UNCHANGED <<regVars, clock, vcall, vdone>>
    \/ ParseKeyfunc /\ UNCHANGED <<regVars, clock, vcall, vdone>>
    \/ ParseVerify /\ UNCHANGED <<regVars, clock, vcall, vdone>>
    \/ ParseValidate /\ UNCHANGED <<regVars, clock, vcall, vdone>>

SpecTamper == InitTamper /\ [][NextTamper]_vars

(***************************************************************************)
(* Specification of the wire prefix: algorithms registered under names of  *)
(* any letter case, strings whose prefix spells the name differently       *)
(***************************************************************************)

PrefixKeyfuncs ==
    {Keyfunc("fail", NoKey), Keyfunc("from", BytesKey(K1)), Keyfunc("from", EdPublic(EdPubBytes(1)))}

NextPrefix ==
    \/ \E alg \in CustomAlgs :
          /\ sent.kind = "none"
          /\ Len(regLog) < Len(BuiltinAlgs) + MaxTokRegs
          /\ RegisterAlgorithm(alg)
          /\ UNCHANGED <<valVars, tokVars>>
    \/ \E alg \in HeldAlgs, key \in SignKeys :
          DoAuthenticate(alg, ClaimsMap(ClaimsKeySubject :> TStr(sA)), <<ClaimsKeySubject>>, key)
              /\ UNCHANGED <<regVars, valVars>>
    \/ \E w \in ReceivedWires : Receive(w) /\ UNCHANGED <<regVars, valVars>>
    \/ \E container \in {"map", "registered"}, kf \in PrefixKeyfuncs :
          ParseBegin(container, kf, TRUE) /\ UNCHANGED <<regVars, clock, vcall, vdone>>
    \/ ParseDecodeTag /\ UNCHANGED <<regVars, clock, vcall, vdone>>
    \/ ParseKeyfunc /\ UNCHANGED <<regVars, clock, vcall, vdone>>
    \/ ParseVerify /\ UNCHANGED <<regVars, clock, vcall, vdone>>
    \/ ParseValidate /\ UNCHANGED <<regVars, clock, vcall, vdone>>

SpecPrefix == InitTamper /\ [][NextPrefix]_vars

(***************************************************************************)
(* Properties of the registry                                              *)
(***************************************************************************)

\* The algorithm most recently passed to RegisterAlgorithm under a name equal
\* to n ignoring letter case, nil when there is none.
RECURSIVE LastRegistered(_, _)
LastRegistered(log, n) ==
    IF log = <<>> THEN NilAlg
    ELSE IF EqualFold(log[Len(log)].name, n) THEN log[Len(log)]
    ELSE LastRegistered(SubSeq(log, 1, Len(log) - 1), n)

RegistryKeysUpper == \A k \in DOMAIN registeredAlgs : IsUpper(k)

RegistryLastWins ==
    \A n \in LookupNames : GetAlgorithm(registeredAlgs, n) = LastRegistered(regLog, n)

RegistryGetAnswer ==
    (lookup'.op = "get" /\ lookup' # lookup)
        => lookup'.result = LastRegistered(regLog, lookup'.name)

RegistryIsolation ==
    regLog' # regLog =>
        \A n \in LookupNames :
            ~EqualFold(n, regLog'[Len(regLog')].name)
                => GetAlgorithm(registeredAlgs', n) = GetAlgorithm(registeredAlgs, n)

\* C6: after any sequence of RegisterAlgorithm calls every key of the registry
\* is upper-case, GetAlgorithm(n) answers the algorithm most recently registered
\* under a name equal to n ignoring letter case and nil when there is none, and
\* a registration changes the lookup result of its own name only.
C6_RegistryLastWriteWins ==
    /\ []RegistryKeysUpper
    /\ []RegistryLastWins
    /\ [][RegistryGetAnswer]_vars
    /\ [][RegistryIsolation]_vars

\* A custom algorithm took over the name of a built-in: looking the name up in
\* another letter case answers the custom algorithm, the other built-ins are
\* still there, and an unregistered name answers nil.
C6_Witness ==
    /\ lookup.op = "get" /\ lookup.name = sHs256 /\ lookup.result = CustomLower
    /\ GetAlgorithm(registeredAlgs, sHS384) = HS384
    /\ GetAlgorithm(registeredAlgs, sEDDSA) = EdDSA
    /\ GetAlgorithm(registeredAlgs, sZZ) = NilAlg
    /\ Len(regLog) > Len(BuiltinAlgs)

(***************************************************************************)
(* Properties of the validator                                             *)
(***************************************************************************)

\* The expiration time and the audience the claims carry (zero when absent).
ClaimExp(c) ==
    IF c.kind = "registered" THEN c.exp
    ELSE IF ClaimsKeyExpirationTime \in DOMAIN c.m THEN c.m[ClaimsKeyExpirationTime].val
    ELSE 0
ClaimAud(c) ==
    IF c.kind = "registered" THEN c.aud
    ELSE IF ClaimsKeyAudience \in DOMAIN c.m THEN c.m[ClaimsKeyAudience].val
    ELSE <<>>
ClaimIss(c) ==
    IF c.kind = "registered" THEN c.iss
    ELSE IF ClaimsKeyIssuer \in DOMAIN c.m THEN c.m[ClaimsKeyIssuer].val
    ELSE <<>>

\* The rules of the call that ran to their end.
RanRules(kind) ==
    { k \in 1..Len(vcall.ran) : vcall.ran[k].rule.kind = kind /\ ~vcall.ran[k].panic }

\* C5: a Validate call that returned ran every registered rule exactly once, in
\* registration order, whatever the earlier rules answered, then the claims' own
\* Validate() exactly when the claims implement ClaimsValidator; the error it
\* returned holds every failure (token-expired and invalid-issuer together when
\* both are violated) and is nil exactly when every rule and the self-check
\* answered nil.
C5_ValidateRunsEveryRule ==
    vcall.pc = "done" =>
        /\ Len(vcall.ran) = Len(v.validators)
        /\ \A k \in 1..Len(vcall.ran) :
              /\ vcall.ran[k].idx = k
              /\ vcall.ran[k].rule = v.validators[k]
              /\ \A j \in 1..Len(vcall.ran[k].err) : Is(vcall.result, <<vcall.ran[k].err[j]>>)
        /\ vcall.selfRan = (vcall.claims.self # "none")
        /\ (vcall.claims.self = "fail") => Is(vcall.result, ErrSelfValidate)
        /\ (vcall.result = NilErr) <=>
              /\ \A k \in 1..Len(vcall.ran) : vcall.ran[k].err = NilErr
              /\ vcall.claims.self # "fail"
        /\ \A ke \in RanRules("exp"), ki \in RanRules("iss") :
              ( /\ ClaimExp(vcall.claims) # 0
                /\ vcall.ran[ke].saw[1] - v.leeway >= ClaimExp(vcall.claims)
                /\ ClaimIss(vcall.claims) # <<>>
                /\ ClaimIss(vcall.claims) # vcall.ran[ki].rule.expect )
              => Is(vcall.result, ErrTokenExpired) /\ Is(vcall.result, ErrTokenInvalidIssuer)

\* A call returned both token-expired and invalid-issuer, after an earlier rule
\* of the same call had already failed.
C5_Witness ==
    /\ vcall.pc = "done"
    /\ Is(vcall.result, ErrTokenExpired)
    /\ Is(vcall.result, ErrTokenInvalidIssuer)
    /\ Is(vcall.result, ErrCustomRule)
    /\ Len(vcall.ran) = 4

\* C7: the expiration rule answers missing-required-claim exactly when exp is
\* absent and the rule is required, nil when exp is absent and not required,
\* and otherwise nil exactly when now - leeway < exp and token-expired if not.
C7_ExpirationRule ==
    \A k \in RanRules("exp") :
        LET e   == vcall.ran[k]
            exp == ClaimExp(vcall.claims)
        IN  IF exp = 0
            THEN /\ e.rule.required => Is(e.err, ErrTokenRequiredClaimMissing)
                 /\ ~e.rule.required => e.err = NilErr
            ELSE /\ e.saw # <<>>
                 /\ e.saw[1] = v.now
                 /\ (e.saw[1] - v.leeway < exp) => e.err = NilErr
                 /\ (e.saw[1] - v.leeway >= exp) => e.err = ErrTokenExpired

\* The rule ran at now = exp + leeway, with a leeway that is not zero, and
\* answered token-expired.
C7_Witness ==
    \E k \in RanRules("exp") :
        /\ v.leeway > 0
        /\ vcall.ran[k].saw = <<ClaimExp(vcall.claims) + v.leeway>>
        /\ vcall.ran[k].err = ErrTokenExpired

\* An audience list counts as absent when it is empty or holds empty strings only.
AudAbsent(aud) == \A i \in 1..Len(aud) : aud[i] = <<>>

\* C8: the audience rule treats a missing list, an empty list and a list of
\* empty strings as absent (missing-required-claim if required, nil if not);
\* otherwise it answers nil when an entry equals the expected audience and
\* invalid-audience when none does.
C8_AudienceRule ==
    \A k \in RanRules("aud") :
        LET e   == vcall.ran[k]
            aud == ClaimAud(vcall.claims)
        IN  IF AudAbsent(aud)
            THEN /\ e.rule.required =>
                        /\ Is(e.err, ErrTokenRequiredClaimMissing)
                        /\ ~Is(e.err, ErrTokenInvalidAudience)
                 /\ ~e.rule.required => e.err = NilErr
            ELSE /\ (\E i \in 1..Len(aud) : aud[i] = e.rule.expect) => e.err = NilErr
                 /\ (\A i \in 1..Len(aud) : aud[i] # e.rule.expect)
                        => e.err = ErrTokenInvalidAudience

\* The rule met a list of empty strings, with the empty string as the expected
\* audience, and answered missing-required-claim.
C8_Witness ==
    \E k \in RanRules("aud") :
        /\ ClaimAud(vcall.claims) = << <<>>, <<>> >>
        /\ vcall.ran[k].rule.expect = <<>>
        /\ Is(vcall.ran[k].err, ErrTokenRequiredClaimMissing)

\* C9: no Validate call crashes the process: a well-known key of a ClaimsMap
\* that holds a value of another type makes the rule answer an error or treat
\* the claim as absent.
C9_ValidateNeverPanics == vcall.pc # "panic"

\* The Validator reads a clock that moves with time.
WallClock == v.timeFunc \in {"nil", "time.Now"}

\* C10: the instant a Validate call captured is not carried over to a later call
\* on the same Validator: when the same claims were accepted by an earlier call
\* and the later call began at or after exp + leeway, the later call answers
\* token-expired.
C10_ClockReadPerCall ==
    ( /\ vcall.pc = "done"
      /\ vdone.n = 1
      /\ vdone.same
      /\ WallClock
      /\ RanRules("exp") # {}
      /\ ClaimExp(vcall.claims) # 0
      /\ vcall.start >= ClaimExp(vcall.claims) + v.leeway )
    => Is(vcall.result, ErrTokenExpired)

(***************************************************************************)
(* Properties of the token pipeline                                        *)
(***************************************************************************)

\* Deep equality of two claims objects, an array of strings counting as equal
\* to the array of values the codec decodes it to.
CodecValue(tv) ==
    IF tv.t = "[]string" THEN TAnys([i \in 1..Len(tv.val) |-> TStr(tv.val[i])]) ELSE tv

DeepEqual(got, want) ==
    /\ got.kind = want.kind
    /\ IF want.kind = "registered" THEN got = want
       ELSE /\ DOMAIN got.m = DOMAIN want.m
            /\ \A k \in DOMAIN want.m : CodecValue(got.m[k]) = CodecValue(want.m[k])

\* A ParseWithClaims call is over.
ParseOver == pcall.pc \in {"returned", "panic"}

\* The string parsed is the one Authenticate returned for an algorithm that is
\* registered under a non-empty name, the callback returns the matching
\* verification key, the container has the type of the original claims, and the
\* validator has no rules.
RoundTripCase ==
    /\ sent.kind = "authenticated"
    /\ sent.flipped = <<>>
    /\ sent.alg.name # <<>>
    /\ \E k \in DOMAIN registeredAlgs : registeredAlgs[k] = sent.alg
    /\ ParseOver
    /\ pcall.keyfunc = Keyfunc("from", VerificationKey(sent.key))
    /\ pcall.container = sent.claims.kind
    /\ v.validators = <<>>

\* C1: round trip.  Parsing the string Authenticate returned, for any claims
\* object, any registered algorithm and any matching key pair, with a callback
\* that returns the matching verification key, returns no error and a token
\* whose claims are deeply equal to the original claims.
C1_RoundTrip ==
    RoundTripCase =>
        /\ pcall.pc = "returned"
        /\ pcall.err = NilErr
        /\ pcall.token.claimsSet
        /\ DeepEqual(pcall.token.claims, sent.claims)

\* C2: tamper detection.  After one bit of the encoded body segment or of the
\* encoded tag segment of a string Authenticate returned has flipped, Parse with
\* the correct key fails with wrong-tag or malformed; it never succeeds.
C2_TamperDetected ==
    (sent.flipped # <<>> /\ ParseOver) =>
        /\ pcall.pc = "returned"
        /\ pcall.err # NilErr
        /\ (Is(pcall.err, ErrWrongTag) \/ Is(pcall.err, ErrTokenMalformed))

\* The stages of ParseWithClaims in their order, and the error kind of each.
Stages == <<"segments", "prefix", "algorithm", "claims", "tag", "keyfunc", "verify", "validate">>

StageOf(entry) == IF entry = "nokeyfunc" THEN "keyfunc" ELSE entry

StageError(entry) ==
    CASE entry \in {"segments", "prefix", "claims", "tag"} -> ErrTokenMalformed
      [] entry \in {"algorithm", "nokeyfunc", "keyfunc"} -> ErrTokenUnverifiable
      [] entry = "verify" -> ErrTokenTagInvalid
      [] entry = "validate" -> ErrTokenInvalidClaims

ErrorKinds ==
    {ErrTokenMalformed, ErrTokenUnverifiable, ErrTokenTagInvalid, ErrTokenInvalidClaims}

\* The stages gone through are the first ones of the fixed order.
StagesInOrder ==
    /\ Len(pcall.log) <= Len(Stages)
    /\ \A i \in 1..Len(pcall.log) : StageOf(pcall.log[i]) = Stages[i]

\* C3: ParseWithClaims runs its stages in a fixed order and stops at the first
\* failure with that stage's error kind; a stage is entered only when every
\* stage before it succeeded (so no Verify after a callback failure, no
\* validator unless Verify succeeded); the callback receives a token whose
\* algorithm, claims and tag are set; and nil is returned only when every stage
\* succeeded.
C3_StageOrder ==
    /\ StagesInOrder
    /\ pcall.pc \in {"tag", "keyfunc", "verify", "validate"} => pcall.err = NilErr
    /\ (pcall.pc = "returned" /\ pcall.err # NilErr) =>
          \A kind \in ErrorKinds :
              Is(pcall.err, kind) <=> kind = StageError(pcall.log[Len(pcall.log)])
    /\ (\E i \in 1..Len(pcall.log) : pcall.log[i] = "keyfunc") =>
          /\ ~pcall.seen.isNil
          /\ pcall.seen.alg # NilAlg
          /\ pcall.seen.claimsSet
          /\ pcall.seen.tagSet
    /\ (pcall.pc = "returned" /\ pcall.err = NilErr) =>
          /\ pcall.log = IF pcall.hasValidator THEN Stages ELSE SubSeq(Stages, 1, 7)
          /\ AlgVerify(pcall.token.alg, Prefix(pcall.token.alg), pcall.raw.claims,
                       pcall.key, pcall.token.tag) = NilErr

\* Verify succeeded, the validator ran and rejected the claims.
C3_Witness ==
    /\ pcall.pc = "returned"
    /\ pcall.log = Stages
    /\ Is(pcall.err, ErrTokenInvalidClaims)
    /\ pcall.seen.claimsSet

\* The string parsed names an algorithm that is not registered and is well
\* formed otherwise: three segments, the type "BWT", a body that decodes into
\* the container.
UnknownAlgorithmCase ==
    /\ pcall.pc = "returned"
    /\ LET parts == Split(wire, 46) IN
       /\ Len(parts) = 3
       /\ LET cut == Cut(parts[1], 95) IN
          /\ cut.found /\ cut.before = sBWT /\ cut.after # <<>>
          /\ GetAlgorithm(registeredAlgs, cut.after) = NilAlg
       /\ Decode(parts[2]).ok
       /\ Unmarshal(Decode(parts[2]).val, pcall.container).ok

\* C4: unknown algorithm.  Parsing a well-formed string that names an
\* unregistered algorithm yields unverifiable, not malformed, and the claims are
\* decoded into the container all the same.
C4_UnknownAlgorithm ==
    UnknownAlgorithmCase =>
        /\ Is(pcall.err, ErrTokenUnverifiable)
        /\ ~Is(pcall.err, ErrTokenMalformed)
        /\ pcall.token.claimsSet
        /\ pcall.token.claims = Unmarshal(Decode(Split(wire, 46)[2]).val, pcall.container).claims

(***************************************************************************)
(* Properties of the clock within one Validate call                        *)
(***************************************************************************)

\* The rules of the call that asked for the time.
TimedRules == { k \in 1..Len(vcall.ran) : vcall.ran[k].saw # <<>> }

\* C11: within one Validate call the clock function is invoked at most once,
\* and every rule that asks for the time during the call observes the same
\* instant, whatever the clock function (one that returns the zero time too)
\* and however many time-based rules there are.
C11_ClockOncePerCall ==
    /\ vcall.reads <= 1
    /\ \A j, k \in TimedRules : vcall.ran[j].saw = vcall.ran[k].saw

(***************************************************************************)
(* Properties of the wire prefix                                           *)
(***************************************************************************)

\* ParseWithClaims from the return of ParseUnverified to its own return.
RECURSIVE RunParse(_, _, _)
RunParse(p, vv, t) ==
    CASE p.pc = "tag" -> RunParse(StepDecodeTag(p), vv, t)
      [] p.pc = "keyfunc" -> RunParse(StepKeyfunc(p), vv, t)
      [] p.pc = "verify" -> RunParse(StepVerify(p), vv, t)
      [] p.pc = "validate" -> StepValidate(p, vv, t).call
      [] OTHER -> p

\* What a ParseWithClaims call gives its caller, and what the callback saw: all
\* of the call but the text of the first segment.
Outcome(p) == [p EXCEPT !.raw = [@ EXCEPT !.parts = Tail(@)]]

\* A letter in upper case or in lower case, any other byte as it is.
Recase(c, upper) ==
    IF upper THEN (IF c \in 97..122 THEN c - 32 ELSE c)
    ELSE (IF c \in 65..90 THEN c + 32 ELSE c)

\* The spellings of a name that differ from it in letter case only.
CaseVariants(name) ==
    { [i \in 1..Len(name) |-> Recase(name[i], f[i])] : f \in [1..Len(name) -> BOOLEAN] }

\* The wire string has three segments, and the first one is cut at its first '_'.
ThreeSegments == Len(Split(wire, 46)) = 3
WirePrefix == Cut(Split(wire, 46)[1], 95)

\* The wire string with another algorithm name in its prefix.
Renamed(name) ==
    Dot(WirePrefix.before \o <<95>> \o name, Split(wire, 46)[2], Split(wire, 46)[3])

\* The error ParseWithClaims returns after Verify answered err.
TagError(err) == IF err # NilErr THEN Join(ErrTokenTagInvalid, err) ELSE NilErr

\* C12: the algorithm name of the prefix is resolved ignoring letter case and
\* Verify is handed "BWT_" + Name() of the resolved algorithm, so a wire string
\* whose algorithm name is spelled in another letter case, with the same body
\* and tag segments, has the same Parse outcome; a type tag other than "BWT"
\* (its case included) and an empty algorithm name are malformed.
C12_PrefixCase ==
    (ParseOver /\ ThreeSegments) =>
        /\ (WirePrefix.found /\ WirePrefix.before = sBWT /\ WirePrefix.after # <<>>) =>
              /\ pcall.log # <<"segments", "prefix">>
              /\ pcall.token.alg = GetAlgorithm(registeredAlgs, ToUpper(WirePrefix.after))
              /\ \A name \in CaseVariants(WirePrefix.after) :
                    Outcome(RunParse(StepUnverified(Renamed(name), pcall.container,
                                                    pcall.keyfunc, pcall.hasValidator,
                                                    registeredAlgs), v, clock))
                        = Outcome(pcall)
        /\ (pcall.log[Len(pcall.log)] = "verify") =>
              pcall.err = TagError(AlgVerify(pcall.token.alg,
                                             sBWT \o <<95>> \o pcall.token.alg.name,
                                             pcall.raw.claims, pcall.key, pcall.token.tag))
        /\ (~WirePrefix.found \/ WirePrefix.before # sBWT \/ WirePrefix.after = <<>>) =>
              /\ pcall.err = ErrTokenMalformed
              /\ pcall.token.isNil

\* A string whose prefix spells the algorithm name in lower case was verified
\* under the context of the registered HS256 and accepted.
C12_Witness ==
    /\ pcall.pc = "returned"
    /\ pcall.err = NilErr
    /\ ThreeSegments
    /\ WirePrefix.after = shs256
    /\ pcall.token.alg = HS256
    /\ sent.kind = "received"

====
